---- MODULE Spec2Model ----
(***************************************************************************)
(* A model of the be-pakwheels service: the JSON-file store (readData,     *)
(* writeData), the route handlers of routes/pakwheelsRoutes.js and the     *)
(* middleware stack of app.js.                                             *)
(*                                                                         *)
(* Text is a sequence of one-character strings, so that trim, toLowerCase, *)
(* includes and parseInt are computed and not assumed.  A JavaScript       *)
(* object (req.query, req.body) is a function whose domain is the set of   *)
(* keys that are present.  A number is a record [k, n]: k = "int" with     *)
(* value n, k = "nan" (NaN in memory) or k = "null" (what JSON.stringify   *)
(* writes for NaN and JSON.parse reads back).                              *)
(***************************************************************************)
EXTENDS Integers, Sequences, FiniteSets, TLC

VARIABLES
    file,      \* the content of DATA_FILE
    slots,     \* the POST /api/cars requests in flight, one per slot
    posts,     \* the number of POST requests started
    now,       \* the clock new Date() reads
    last,      \* the last response sent by a handler, with its request
    qcat,      \* listAll: the catalog the query runs on
    qres,      \* listAll: the query and the array it returned
    rreq,      \* dispatch: the request being routed
    rpos,      \* dispatch: where it is in the middleware stacks
    rerr,      \* dispatch: the error passed to next(), if any
    rres       \* dispatch: the response sent

vars == <<file, slots, posts, now, last, qcat, qres, rreq, rpos, rerr, rres>>
storeVars == <<file, slots, posts, now, last>>
queryVars == <<qcat, qres>>
routeVars == <<rreq, rpos, rerr, rres>>

\* ------------------------------------------------------------------ bounds

MaxPosts == 2
MaxClock == 1
MaxCatalog == 2

\* -------------------------------------------------------------------- text

Range(s) == {s[i] : i \in DOMAIN s}

\* The UTF-16 code unit of a character, for the characters the model uses.
CharCode(c) ==
    CASE c = " " -> 32 [] c = "-" -> 45 [] c = "." -> 46
      [] c = "0" -> 48 [] c = "1" -> 49 [] c = "2" -> 50 [] c = "3" -> 51
      [] c = "4" -> 52 [] c = "5" -> 53 [] c = "6" -> 54 [] c = "7" -> 55
      [] c = "8" -> 56 [] c = "9" -> 57
      [] c = "A" -> 65 [] c = "B" -> 66 [] c = "L" -> 76 [] c = "X" -> 88
      [] c = "a" -> 97 [] c = "b" -> 98 [] c = "l" -> 108 [] c = "x" -> 120
      [] OTHER -> 63

LowerChar(c) ==
    CASE c = "A" -> "a" [] c = "B" -> "b" [] c = "L" -> "l" [] c = "X" -> "x"
      [] OTHER -> c

\* String.prototype.toLowerCase
toLowerCase(s) == [i \in DOMAIN s |-> LowerChar(s[i])]

\* String.prototype.includes
includes(s, t) ==
    \E i \in 0..(Len(s) - Len(t)) : SubSeq(s, i + 1, i + Len(t)) = t

\* String.prototype.trim (the model's only white space is the space)
RECURSIVE trimStart(_)
trimStart(s) ==
    IF s # <<>> /\ Head(s) = " " THEN trimStart(Tail(s)) ELSE s

RECURSIVE trimEnd(_)
trimEnd(s) ==
    IF s # <<>> /\ s[Len(s)] = " " THEN trimEnd(SubSeq(s, 1, Len(s) - 1)) ELSE s

trim(s) == trimEnd(trimStart(s))

\* The relational < of two strings: code units compared left to right.
RECURSIVE TextLess(_, _)
TextLess(s, t) ==
    IF t = <<>> THEN FALSE
    ELSE IF s = <<>> THEN TRUE
    ELSE IF CharCode(Head(s)) # CharCode(Head(t))
         THEN CharCode(Head(s)) < CharCode(Head(t))
         ELSE TextLess(Tail(s), Tail(t))

\* ----------------------------------------------------------------- numbers

Int_(n) == [k |-> "int", n |-> n]
NaN == [k |-> "nan", n |-> 0]
Null == [k |-> "null", n |-> 0]

IsDigit(c) == CharCode(c) >= 48 /\ CharCode(c) <= 57

RECURSIVE DigitsValue(_, _)
\* The value of the longest prefix of digits of s, after the digits worth acc.
DigitsValue(s, acc) ==
    IF s = <<>> \/ ~IsDigit(Head(s)) THEN acc
    ELSE DigitsValue(Tail(s), 10 * acc + (CharCode(Head(s)) - 48))

\* parseInt of a string: white space, a sign, then digits; NaN without a digit.
parseIntText(s) ==
    LET t == trimStart(s)
        neg == t # <<>> /\ Head(t) = "-"
        d == IF neg THEN Tail(t) ELSE t
    IN  IF d = <<>> \/ ~IsDigit(Head(d)) THEN NaN
        ELSE Int_(IF neg THEN 0 - DigitsValue(d, 0) ELSE DigitsValue(d, 0))

\* parseInt of a stored number: String(v) is parsed, and "null" has no digit.
parseIntNum(v) == IF v.k = "int" THEN v ELSE NaN

\* ToNumber, as the relational operators and Math.min apply it: null is 0.
ToNumber(v) == IF v.k = "null" THEN Int_(0) ELSE v

\* a >= b, a <= b, a < b, a > b on numbers: false when either is NaN.
NumGe(a, b) ==
    LET x == ToNumber(a) y == ToNumber(b)
    IN  x.k = "int" /\ y.k = "int" /\ x.n >= y.n

NumLe(a, b) ==
    LET x == ToNumber(a) y == ToNumber(b)
    IN  x.k = "int" /\ y.k = "int" /\ x.n <= y.n

NumLt(a, b) ==
    LET x == ToNumber(a) y == ToNumber(b)
    IN  x.k = "int" /\ y.k = "int" /\ x.n < y.n

\* JSON.stringify followed by JSON.parse, of a number: NaN comes back null.
JsonNum(v) == IF v.k = "nan" THEN Null ELSE v

\* ... of a listing, and of the cars array.
JsonCar(c) == [c EXCEPT !.year = JsonNum(c.year), !.price = JsonNum(c.price)]

JsonCars(cars) == [i \in DOMAIN cars |-> JsonCar(cars[i])]

\* ------------------------------------------------------------------- store

\* What DATA_FILE can hold: a catalog document; nothing (no such file); text
\* that is not JSON (also a file cut short by a failed write); a file the
\* process may not read; JSON that parses but has no cars array, such as {}.
FileKinds == {"ok", "absent", "corrupt", "unreadable", "malformed"}

Doc(cars, nextId) == [kind |-> "ok", cars |-> cars, nextId |-> nextId]
NoDoc(kind) == [kind |-> kind, cars |-> <<>>, nextId |-> 0]

\* Faulty variant, for comparison: the counter of the empty catalog starts at 0.
readData_FromZero(f) ==
    IF f.kind \in {"ok", "malformed"} THEN f ELSE Doc(<<>>, 0)

\* readData: the parsed document, or the empty catalog when fs.readFile or
\* JSON.parse throws.  A malformed document parses, and is returned as it is.
readData(f) ==
    IF f.kind \in {"ok", "malformed"} THEN f ELSE Doc(<<>>, 1)

\* Faulty variant, for comparison: the new listing appended to what the file holds at the write.
writeData_Append(f, data) ==
    IF f.kind = "ok" /\ data.cars # <<>>
    THEN Doc(f.cars \o <<JsonCars(data.cars)[Len(data.cars)]>>, data.nextId)
    ELSE Doc(JsonCars(data.cars), data.nextId)

\* writeData, when fs.writeFile succeeds: the file f is replaced as a whole
\* by the serialized document.  The write is one step: another request reads
\* the file as it was before it or as it is after it.
writeData(f, data) == Doc(JsonCars(data.cars), data.nextId)

\* writeData, when fs.writeFile fails: the file is as it was, or cut short.
FailedWrite(f) == {f, NoDoc("corrupt")}

\* ------------------------------------------------------------ query engine

\* A JavaScript truthiness test of o[k], o a query or a body whose values are
\* strings: the key is present and its string is not empty.
Truthy(o, k) == k \in DOMAIN o /\ o[k] # <<>>

\* The names the handler compares sortBy and sortOrder with.
T_price == <<"p", "r", "i", "c", "e">>
T_year == <<"y", "e", "a", "r">>
T_mileage == <<"m", "i", "l", "e", "a", "g", "e">>
T_make == <<"m", "a", "k", "e">>
T_createdAt == <<"c", "r", "e", "a", "t", "e", "d", "A", "t">>
T_asc == <<"a", "s", "c">>
T_desc == <<"d", "e", "s", "c">>

\* The filters of GET /api/cars, in the order of the source.
FilterOrder ==
    <<"search", "make", "model", "minPrice", "maxPrice", "minYear", "maxYear",
      "location", "condition">>

\* The test the filter of parameter p applies to a car.
Keeps(p, q, car) ==
    CASE p = "search" ->
           LET searchTerm == toLowerCase(q.search)
           IN  \/ includes(toLowerCase(car.make), searchTerm)
               \/ includes(toLowerCase(car.model), searchTerm)
               \/ includes(toLowerCase(car.location), searchTerm)
      [] p = "make" -> toLowerCase(car.make) = toLowerCase(q.make)
      [] p = "model" -> toLowerCase(car.model) = toLowerCase(q.model)
      [] p = "minPrice" -> NumGe(car.price, parseIntText(q.minPrice))
      [] p = "maxPrice" -> NumLe(car.price, parseIntText(q.maxPrice))
      [] p = "minYear" -> NumGe(car.year, parseIntText(q.minYear))
      [] p = "maxYear" -> NumLe(car.year, parseIntText(q.maxYear))
      [] p = "location" ->
           includes(toLowerCase(car.location), toLowerCase(q.location))
      [] p = "condition" -> toLowerCase(car.condition) = toLowerCase(q.condition)

\* Faulty variant, for comparison: the filter applied whenever the parameter is in the query, empty
\* or not.
ApplyFilter_IfPresent(p, q, cars) ==
    IF p \in DOMAIN q THEN SelectSeq(cars, LAMBDA car : Keeps(p, q, car)) ELSE cars

\* One filter: if (p) { cars = cars.filter(...) }.
ApplyFilter(p, q, cars) ==
    IF Truthy(q, p) THEN SelectSeq(cars, LAMBDA car : Keeps(p, q, car)) ELSE cars

RECURSIVE ApplyFilters(_, _, _)
\* The filters named by order, applied one after the other.
ApplyFilters(order, q, cars) ==
    IF order = <<>> THEN cars
    ELSE ApplyFilters(Tail(order), q, ApplyFilter(Head(order), q, cars))

\* sortBy = "createdAt" and sortOrder = "desc" when the query has none.
SortByOf(q) == IF "sortBy" \in DOMAIN q THEN q.sortBy ELSE T_createdAt
SortOrderOf(q) == IF "sortOrder" \in DOMAIN q THEN q.sortOrder ELSE T_desc

\* a[sortBy], after the parseInt of the numeric fields: a number, a text, or
\* undefined for a field a listing does not have.
SortKey(car, sortBy) ==
    CASE sortBy = T_price -> [t |-> "num", v |-> parseIntNum(car.price)]
      [] sortBy = T_year -> [t |-> "num", v |-> parseIntNum(car.year)]
      [] sortBy = T_mileage -> [t |-> "num", v |-> NaN]
      [] sortBy = T_createdAt -> [t |-> "num", v |-> Int_(car.createdAt)]
      [] sortBy = T_make -> [t |-> "text", v |-> car.make]
      [] OTHER -> [t |-> "undef", v |-> <<>>]

\* aValue < bValue on two sort keys of one kind.
KeyLess(a, b) ==
    CASE a.t = "num" -> a.v.k = "int" /\ b.v.k = "int" /\ a.v.n < b.v.n
      [] a.t = "text" -> TextLess(a.v, b.v)
      [] OTHER -> FALSE

\* Faulty variant, for comparison: the comparator of the descending order, whatever sortOrder is.
Compare_AlwaysDescending(a, b, sortBy, sortOrder) ==
    IF KeyLess(SortKey(a, sortBy), SortKey(b, sortBy)) THEN 1 ELSE -1

\* The comparator of cars.sort: negative when a is to come before b.
Compare(a, b, sortBy, sortOrder) ==
    LET aValue == SortKey(a, sortBy)
        bValue == SortKey(b, sortBy)
    IN  IF sortOrder = T_asc
        THEN (IF KeyLess(bValue, aValue) THEN 1 ELSE -1)
        ELSE (IF KeyLess(aValue, bValue) THEN 1 ELSE -1)

\* The permutations of 1..n, as functions.
Perms(n) == {f \in [1..n -> 1..n] : \A i, j \in 1..n : f[i] = f[j] => i = j}

\* What cars.sort(comparator) may leave in the array.  With keys that all
\* compare (no NaN, no undefined) it is an arrangement in which the comparator
\* puts every element before the ones that follow it: the one sorted
\* arrangement when the keys differ, and one for each order of the equal keys
\* when some are equal.  With a key that does not compare, the comparator is
\* inconsistent and the order is implementation-defined: any arrangement.
SortOutcomes(cars, sortBy, sortOrder) ==
    LET n == Len(cars)
        keysCompare ==
            \A i \in 1..n :
                LET key == SortKey(cars[i], sortBy)
                IN  key.t = "text" \/ (key.t = "num" /\ key.v.k = "int")
        arranged(f) == [i \in 1..n |-> cars[f[i]]]
        sorted(s) ==
            \A i, j \in 1..n :
                i < j => Compare(s[i], s[j], sortBy, sortOrder) = -1
    IN  IF keysCompare
        THEN {arranged(f) : f \in {g \in Perms(n) : sorted(arranged(g))}}
        ELSE {arranged(f) : f \in Perms(n)}

\* GET /api/cars on a catalog: the arrays the handler may answer with.
listAll(cars, q) ==
    SortOutcomes(ApplyFilters(FilterOrder, q, cars), SortByOf(q), SortOrderOf(q))

\* ----------------------------------------------------------- request inputs

\* The fields POST /api/cars takes from req.body and tests.
RequiredFields ==
    <<"make", "model", "year", "price", "location", "condition", "image">>

\* Four complete bodies.  The third has a price parseInt cannot read.
SampleBodyA ==
    [make |-> <<" ", "B", "a">>, model |-> <<"X">>, year |-> <<"2", "0">>,
     price |-> <<"3", "0">>, location |-> <<"L", "a">>,
     condition |-> <<"a">>, image |-> <<"a", ".">>]

SampleBodyB ==
    [make |-> <<"b", "a">>, model |-> <<"x", "1">>, year |-> <<"2", "1">>,
     price |-> <<"1", "0">>, location |-> <<"a", "l", " ">>,
     condition |-> <<"A">>, image |-> <<"b">>]

SampleBodyC ==
    [make |-> <<"A", "b">>, model |-> <<"X">>, year |-> <<"1", "9">>,
     price |-> <<"x">>, location |-> <<"l", "a", "b">>,
     condition |-> <<"b">>, image |-> <<"a">>]

SampleBodyD ==
    [make |-> <<"B", "A">>, model |-> <<"x">>, year |-> <<"2", "0">>,
     price |-> <<"2", "0", "x">>, location |-> <<"b">>,
     condition |-> <<"a", " ">>, image |-> <<"b">>]

\* A body without key k, and a body whose key k is the empty string.
Without(body, k) == [f \in (DOMAIN body) \ {k} |-> body[f]]
Emptied(body, k) == [body EXCEPT ![k] = <<>>]

CompleteBodies == {SampleBodyA, SampleBodyB}

IncompleteBodies ==
    {Without(SampleBodyA, k) : k \in Range(RequiredFields)}
        \cup {Emptied(SampleBodyA, k) : k \in Range(RequiredFields)}

PostBodies == CompleteBodies \cup IncompleteBodies

DigitChar(n) ==
    CASE n = 0 -> "0" [] n = 1 -> "1" [] n = 2 -> "2" [] n = 3 -> "3"
      [] n = 4 -> "4" [] n = 5 -> "5" [] n = 6 -> "6" [] n = 7 -> "7"
      [] n = 8 -> "8" [] OTHER -> "9"

\* The values of :id in GET /api/cars/:id: the identifier of each listing
\* of cars, an integer no listing has, and a text with no digit.
IdParams(cars) ==
    {<<DigitChar(cars[i].id)>> : i \in DOMAIN cars} \cup {<<"0">>, <<"x">>}

\* The values of :make in GET /api/makes/:make/models.
MakeParams == {<<"B", "A">>}

\* The queries of GET /api/cars the store's handlers are run with.
StoreQueries == {<<>>, [search |-> <<"b">>, sortBy |-> T_make]}

\* ---------------------------------------------------------------- handlers

\* A response, with the request it answers: the status code and what
\* res.json is given.
Response(op, req, status, body) ==
    [op |-> op, req |-> req, code |-> status, sent |-> body]

ErrInternal == [error |-> <<"Internal server error">>]
ErrCarNotFound == [error |-> <<"Car not found">>]
\* The one message of the 400 of POST /api/cars, word by word.
ErrMissing ==
    [error |-> <<"Missing required fields:", "make", "model", "year", "price",
                 "location", "condition">>]

\* if (!make || !model || !year || !price || !location || !condition || !image)
MissingField(body) == \E k \in Range(RequiredFields) : ~Truthy(body, k)

\* Faulty variant, for comparison: the identifier taken from the number of listings.
NewCar_IdFromLength(data, body, t) ==
    [id |-> Len(data.cars) + 1,
     make |-> trim(body.make),
     model |-> trim(body.model),
     year |-> parseIntText(body.year),
     price |-> parseIntText(body.price),
     location |-> trim(body.location),
     condition |-> trim(body.condition),
     image |-> trim(body.image),
     createdAt |-> t]

\* const newCar = { id: data.nextId, make: make.trim(), ... }
NewCar(data, body, t) ==
    [id |-> data.nextId,
     make |-> trim(body.make),
     model |-> trim(body.model),
     year |-> parseIntText(body.year),
     price |-> parseIntText(body.price),
     location |-> trim(body.location),
     condition |-> trim(body.condition),
     image |-> trim(body.image),
     createdAt |-> t]

\* Faulty variant, for comparison: the push without the increment.
Pushed_NoIncrement(data, newCar) == [data EXCEPT !.cars = Append(@, newCar)]

\* Faulty variant, for comparison: the listing put first (unshift for push).
Pushed_First(data, newCar) ==
    [data EXCEPT !.cars = <<newCar>> \o @, !.nextId = @ + 1]

\* data.cars.push(newCar); data.nextId++
Pushed(data, newCar) ==
    [data EXCEPT !.cars = Append(@, newCar), !.nextId = @ + 1]

\* Two POST /api/cars requests can be in flight at a time.
Slots == {"first", "second"}

\* A request in flight keeps its body, the document as it read it (read), the
\* same document after the push and the increment (data) and its listing
\* (newCar); one that has answered keeps its status and, if it went as far
\* as the write, its body and its listing.
IdleSlot ==
    [pc |-> "idle", body |-> <<>>, read |-> NoDoc("absent"),
     data |-> NoDoc("absent"), newCar |-> <<>>, status |-> 0]

DoneSlot(body, newCar, status) ==
    [pc |-> "done", body |-> body, read |-> NoDoc("absent"),
     data |-> NoDoc("absent"), newCar |-> newCar, status |-> status]

\* POST /api/cars, up to the call of fs.writeFile: the read of the file, the
\* validation, the new listing, the push and the increment.  A malformed
\* document makes data.cars.push throw, which the handler answers with 500.
PostRead(s) ==
    /\ slots[s].pc # "writing"
    /\ posts < MaxPosts
    /\ \E body \in PostBodies, t \in now..MaxClock :
         LET data == readData(file)
             newCar == NewCar(data, body, t)
         IN  IF MissingField(body)
             THEN /\ slots' = [slots EXCEPT ![s] = DoneSlot(<<>>, <<>>, 400)]
                  /\ last' = Response("POST /api/cars", body, 400, ErrMissing)
                  /\ now' = now
             ELSE IF data.kind = "malformed"
             THEN /\ slots' = [slots EXCEPT ![s] = DoneSlot(<<>>, <<>>, 500)]
                  /\ last' = Response("POST /api/cars", body, 500, ErrInternal)
                  /\ now' = t
             ELSE /\ slots' = [slots EXCEPT ![s] =
                                 [pc |-> "writing", body |-> body,
                                  read |-> data,
                                  data |-> Pushed(data, newCar),
                                  newCar |-> newCar, status |-> 0]]
                  /\ last' = last
                  /\ now' = t
    /\ posts' = posts + 1
    /\ file' = file
    /\ UNCHANGED <<queryVars, routeVars>>

\* POST /api/cars, fs.writeFile having succeeded: res.status(201).json(newCar).
PostWriteOk(s) ==
    /\ slots[s].pc = "writing"
    /\ file' = writeData(file, slots[s].data)
    /\ slots' = [slots EXCEPT ![s] = DoneSlot(@.body, @.newCar, 201)]
    /\ last' = Response("POST /api/cars", slots[s].body, 201,
                        JsonCar(slots[s].newCar))
    /\ UNCHANGED <<posts, now, queryVars, routeVars>>

\* POST /api/cars, fs.writeFile having failed: writeData throws, and the
\* handler answers 500.
PostWriteFail(s) ==
    /\ slots[s].pc = "writing"
    /\ file' \in FailedWrite(file)
    /\ slots' = [slots EXCEPT ![s] = DoneSlot(@.body, @.newCar, 500)]
    /\ last' = Response("POST /api/cars", slots[s].body, 500, ErrInternal)
    /\ UNCHANGED <<posts, now, queryVars, routeVars>>

\* What a GET handler answers on file f: on a malformed document data.cars
\* is undefined, its use throws, and the handler answers 500.
Answer(f, op, req, status, body) ==
    IF readData(f).kind = "malformed"
    THEN Response(op, req, 500, ErrInternal)
    ELSE Response(op, req, status, body)

\* GET /api/cars
CarsAnswers(f) ==
    UNION {{Answer(f, "GET /api/cars", q, 200, cars) :
              cars \in listAll(readData(f).cars, q)} : q \in StoreQueries}

\* Faulty variant, for comparison: the listing looked up by its place in the array, data.cars[id - 1].
Matches_ByIndex(cars, id) ==
    LET wanted == parseIntText(id)
    IN  {i \in DOMAIN cars : wanted.k = "int" /\ i = wanted.n}

\* data.cars.find((c) => c.id === parseInt(req.params.id)): the indexes of the
\* cars that match.
Matches(cars, id) ==
    LET wanted == parseIntText(id)
    IN  {i \in DOMAIN cars : wanted.k = "int" /\ cars[i].id = wanted.n}

\* The least and the greatest element of a non-empty set of integers.
Least(S) == CHOOSE x \in S : \A y \in S : x <= y
Greatest(S) == CHOOSE x \in S : \A y \in S : x >= y

\* GET /api/cars/:id
CarByIdAnswer(f, id) ==
    LET cars == readData(f).cars
        found == Matches(cars, id)
    IN  IF found = {}
        THEN Answer(f, "GET /api/cars/:id", id, 404, ErrCarNotFound)
        ELSE Answer(f, "GET /api/cars/:id", id, 200, cars[Least(found)])

RECURSIVE SortTexts(_)
\* [...set].sort(): the texts of S in increasing order of code units.
SortTexts(S) ==
    IF S = {} THEN <<>>
    ELSE LET first == CHOOSE x \in S : \A y \in S \ {x} : TextLess(x, y)
         IN  <<first>> \o SortTexts(S \ {first})

\* GET /api/makes
MakesAnswer(f) ==
    LET cars == readData(f).cars
    IN  Answer(f, "GET /api/makes", <<>>, 200,
               SortTexts({cars[i].make : i \in DOMAIN cars}))

\* GET /api/makes/:make/models
ModelsAnswer(f, make) ==
    LET cars == readData(f).cars
        ofMake == {i \in DOMAIN cars :
                     toLowerCase(cars[i].make) = toLowerCase(make)}
    IN  Answer(f, "GET /api/makes/:make/models", make, 200,
               SortTexts({cars[i].model : i \in ofMake}))

\* GET /api/locations
LocationsAnswer(f) ==
    LET cars == readData(f).cars
    IN  Answer(f, "GET /api/locations", <<>>, 200,
               SortTexts({cars[i].location : i \in DOMAIN cars}))

\* Math.min(...values) and Math.max(...values) as res.json sends them: the
\* Infinity and -Infinity of an empty array are written null.
MathMin(values) ==
    IF values = <<>> THEN Null
    ELSE Int_(Least({ToNumber(values[i]).n : i \in DOMAIN values}))

MathMax(values) ==
    IF values = <<>> THEN Null
    ELSE Int_(Greatest({ToNumber(values[i]).n : i \in DOMAIN values}))

\* GET /api/price-range
PriceRangeAnswer(f) ==
    LET cars == readData(f).cars
        prices == [i \in DOMAIN cars |-> cars[i].price]
    IN  Answer(f, "GET /api/price-range", <<>>, 200,
               [minPrice |-> MathMin(prices), maxPrice |-> MathMax(prices)])

\* GET /api/year-range
YearRangeAnswer(f) ==
    LET cars == readData(f).cars
        years == [i \in DOMAIN cars |-> cars[i].year]
    IN  Answer(f, "GET /api/year-range", <<>>, 200,
               [minYear |-> MathMin(years), maxYear |-> MathMax(years)])

\* A GET handler answers in one step: the read of the file is its only access
\* to the store.
Send(answer) ==
    /\ last' = answer
    /\ UNCHANGED <<file, slots, posts, now, queryVars, routeVars>>

GetCars == \E answer \in CarsAnswers(file) : Send(answer)

GetCarById ==
    \E id \in IdParams(readData(file).cars) : Send(CarByIdAnswer(file, id))

GetMakes == Send(MakesAnswer(file))

GetModels == \E make \in MakeParams : Send(ModelsAnswer(file, make))

GetLocations == Send(LocationsAnswer(file))

GetPriceRange == Send(PriceRangeAnswer(file))

GetYearRange == Send(YearRangeAnswer(file))

\* ------------------------------------------------------- the store's system

\* A listing as the file holds it: body's listing under identifier id.
Stored(id, body, t) == JsonCar(NewCar(Doc(<<>>, id), body, t))

\* The files the service may start on.  In a catalog document nextId is
\* greater than every identifier.
InitFiles ==
    {NoDoc(k) : k \in FileKinds \ {"ok"}}
        \cup {Doc(<<>>, 1), Doc(<<Stored(1, SampleBodyC, 0)>>, 3)}

NoResponse == Response("none", <<>>, 0, <<>>)

\* The parts of the state that belong to the query engine's system and to
\* the dispatch's system stay as they start.
Init ==
    /\ file \in InitFiles
    /\ slots = [s \in Slots |-> IdleSlot]
    /\ posts = 0
    /\ now = 0
    /\ last = NoResponse
    /\ qcat = <<>> /\ qres = <<>>
    /\ rreq = <<>> /\ rpos = <<>> /\ rerr = FALSE /\ rres = <<>>

Next ==
    \/ \E s \in Slots : PostRead(s)
    \/ \E s \in Slots : PostWriteOk(s)
    \/ \E s \in Slots : PostWriteFail(s)
    \/ GetCars
    \/ GetCarById
    \/ GetMakes
    \/ GetModels
    \/ GetLocations
    \/ GetPriceRange
    \/ GetYearRange

Spec == Init /\ [][Next]_vars

\* ------------------------------------------------- the query engine's system

\* The values each filter parameter of GET /api/cars is given when it is
\* present: for make and minPrice also the empty string (?make=), and for
\* minPrice a text parseInt cannot read.
ParamValues ==
    [search |-> <<(<<"b">>)>>,
     make |-> <<(<<"B", "A">>), <<>>>>,
     model |-> <<(<<"x">>)>>,
     minPrice |-> <<(<<"1", "0">>), (<<"x">>)>>,
     maxPrice |-> <<(<<"2", "0">>)>>,
     minYear |-> <<(<<"2", "0">>)>>,
     maxYear |-> <<(<<"2", "0">>)>>,
     location |-> <<(<<"L", "A">>)>>,
     condition |-> <<(<<"a">>)>>]

\* req.query restricted to the filters: each parameter is absent (choice 0)
\* or has one of its values.
FilterQueries ==
    LET params == Range(FilterOrder)
        choices == {c \in [params -> 0..2] :
                      \A p \in params : c[p] <= Len(ParamValues[p])}
    IN  {[p \in {x \in params : c[x] > 0} |-> ParamValues[p][c[p]]] :
           c \in choices}

\* The sortBy and sortOrder of req.query: none, or both.
SortQueries ==
    {<<>>,
     [sortBy |-> T_price, sortOrder |-> T_asc],
     [sortBy |-> T_price, sortOrder |-> T_desc],
     [sortBy |-> T_make, sortOrder |-> T_asc]}

\* The object with the keys of both a and b.
Merge(a, b) ==
    [k \in (DOMAIN a) \cup (DOMAIN b) |-> IF k \in DOMAIN a THEN a[k] ELSE b[k]]

SampleBodies == {SampleBodyA, SampleBodyB, SampleBodyC, SampleBodyD}

\* The catalogs the queries run on: up to MaxCatalog listings created from
\* different sample bodies, numbered from 1, the first at instant 0 and the
\* others at instant 1.
Catalogs ==
    UNION {{[i \in 1..n |-> Stored(i, b[i], IF i = 1 THEN 0 ELSE 1)] :
              b \in {c \in [1..n -> SampleBodies] :
                       \A i, j \in 1..n : c[i] = c[j] => i = j}} :
           n \in 0..MaxCatalog}

QueryInit ==
    /\ file = NoDoc("absent")
    /\ slots = [s \in Slots |-> IdleSlot]
    /\ posts = 0
    /\ now = 0
    /\ last = NoResponse
    /\ rreq = <<>> /\ rpos = <<>> /\ rerr = FALSE /\ rres = <<>>
    /\ qcat \in Catalogs
    /\ qres = <<>>

\* GET /api/cars with query q on the catalog: the array of the answer.  Each
\* behaviour is one request.
RunQuery ==
    /\ qres = <<>>
    /\ \E f \in FilterQueries, o \in SortQueries :
         LET q == Merge(f, o)
         IN  \E cars \in listAll(qcat, q) : qres' = [q |-> q, cars |-> cars]
    /\ UNCHANGED <<qcat, storeVars, routeVars>>

QuerySpec == QueryInit /\ [][RunQuery]_vars

\* ------------------------------------------------------ the dispatch's system

\* A path is the sequence of its segments: /api/cars is <<"api", "cars">>.
\* The routes of the router, in the order they are registered.
Routes ==
    <<[method |-> "GET", path |-> <<"api", "cars">>],
      [method |-> "GET", path |-> <<"api", "cars", ":id">>],
      [method |-> "POST", path |-> <<"api", "cars">>],
      [method |-> "GET", path |-> <<"api", "makes">>],
      [method |-> "GET", path |-> <<"api", "makes", ":make", "models">>],
      [method |-> "GET", path |-> <<"api", "locations">>],
      [method |-> "GET", path |-> <<"api", "price-range">>],
      [method |-> "GET", path |-> <<"api", "year-range">>]>>

\* The segments of a route's path that are parameters.
IsParam(seg) == seg \in {":id", ":make"}

\* A route's path matches a request's: segment by segment, a parameter
\* matching any segment.
PathMatches(pattern, path) ==
    /\ Len(pattern) = Len(path)
    /\ \A i \in DOMAIN pattern : IsParam(pattern[i]) \/ pattern[i] = path[i]

RouteMatches(route, req) ==
    route.method = req.method /\ PathMatches(route.path, req.path)

\* The layers of the router: its routes, then the function given to
\* router.use, which is declared with the three parameters (error, _, res).
RouterLayers ==
    [i \in 1..Len(Routes) |-> [kind |-> "route", name |-> "route", arity |-> 2,
                               route |-> Routes[i]]]
        \o <<[kind |-> "use", name |-> "errorMiddleware", arity |-> 3,
              route |-> <<>>]>>

\* The layers of the application: cors twice, bodyParser.json, the router
\* mounted on "/", and the 404 handler, declared with the parameters (_, res).
AppLayers ==
    <<[kind |-> "use", name |-> "cors", arity |-> 3],
      [kind |-> "use", name |-> "cors", arity |-> 3],
      [kind |-> "use", name |-> "json", arity |-> 3],
      [kind |-> "use", name |-> "router", arity |-> 3],
      [kind |-> "use", name |-> "notFound", arity |-> 2]>>

\* Where the router is in the application's stack.
RouterAt == CHOOSE i \in DOMAIN AppLayers : AppLayers[i].name = "router"

\* The statuses the handler of a route answers with.
RouteStatuses(route) ==
    IF route.method = "POST" THEN {201, 400, 500}
    ELSE IF route.path = <<"api", "cars", ":id">> THEN {200, 404, 500}
    ELSE {200, 500}

JsonResponse(status, body) == [status |-> status, json |-> TRUE, body |-> body]
\* The answer of the final handler of Express: an HTML page, not JSON.
HtmlResponse(status) ==
    [status |-> status, json |-> FALSE, body |-> [html |-> "page"]]

ErrRouteNotFound == [error |-> <<"Route not found">>]

\* The arguments Express calls a layer's function with: (req, res, next), or
\* (err, req, res, next) for a function of four parameters when an error is
\* being passed on.  No arguments when the function is not called: one of four
\* parameters without an error, one of another number with an error.
CallArgs(arity, err) ==
    IF err
    THEN (IF arity = 4 THEN <<"err", "req", "res", "next">> ELSE <<>>)
    ELSE (IF arity > 3 THEN <<>> ELSE <<"req", "res", "next">>)

\* What a function does with the arguments it is called with: it calls
\* next(), it sends a response, or it throws (Express passes the exception on
\* as next(err)).  cors (the request is no preflight) and bodyParser.json
\* (the body parses) call next().  The 404 handler and the error middleware
\* call status() on what their parameter res is bound to, which is a
\* TypeError unless that is the response.
Invoke(name, args) ==
    CASE name = "notFound" ->
           IF args[2] = "res" THEN JsonResponse(404, ErrRouteNotFound)
           ELSE "throw"
      [] name = "errorMiddleware" ->
           IF args[3] = "res" THEN JsonResponse(500, ErrInternal) ELSE "throw"
      [] OTHER -> "next"

\* The requests that are routed.
Methods == {"GET", "POST", "PUT", "DELETE"}

Paths ==
    {<<>>, <<"api">>, <<"cars">>, <<"api", "cars">>, <<"api", "cars", "1">>,
     <<"api", "cars", "1", "x">>, <<"api", "makes">>, <<"api", "makes", "b">>,
     <<"api", "makes", "b", "models">>, <<"api", "locations">>,
     <<"api", "price-range">>, <<"api", "year-range">>}

RouteInit ==
    /\ file = NoDoc("absent")
    /\ slots = [s \in Slots |-> IdleSlot]
    /\ posts = 0
    /\ now = 0
    /\ last = NoResponse
    /\ qcat = <<>> /\ qres = <<>>
    /\ rreq \in [method : Methods, path : Paths]
    /\ rpos = [stack |-> "app", i |-> 1]
    /\ rerr = FALSE
    /\ rres = <<>>

\* A layer whose function is a middleware: called or skipped, and then the
\* next layer of the same stack unless it sent a response.
UseLayer(layer) ==
    LET args == CallArgs(layer.arity, rerr)
        outcome == IF args = <<>> THEN "next" ELSE Invoke(layer.name, args)
    IN  /\ rerr' = (rerr \/ outcome = "throw")
        /\ rres' = (IF outcome \in {"next", "throw"} THEN rres ELSE outcome)
        /\ rpos' = [rpos EXCEPT !.i = @ + 1]

\* One layer of the application's stack.  The router runs its own stack.
AppStep ==
    /\ rres = <<>>
    /\ rpos.stack = "app"
    /\ rpos.i <= Len(AppLayers)
    /\ LET layer == AppLayers[rpos.i]
       IN  IF layer.name = "router" /\ CallArgs(layer.arity, rerr) # <<>>
           THEN /\ rpos' = [stack |-> "router", i |-> 1]
                /\ UNCHANGED <<rerr, rres>>
           ELSE UseLayer(layer)
    /\ UNCHANGED <<rreq, storeVars, queryVars>>

\* One layer of the router's stack.  A route is taken when no error is being
\* passed on and its method and path match: its handler answers (with 200,
\* 201, 400, 404 or 500 and a JSON body) and calls no next().
RouterStep ==
    /\ rres = <<>>
    /\ rpos.stack = "router"
    /\ rpos.i <= Len(RouterLayers)
    /\ LET layer == RouterLayers[rpos.i]
       IN  IF layer.kind = "route"
           THEN /\ IF ~rerr /\ RouteMatches(layer.route, rreq)
                   THEN \E status \in RouteStatuses(layer.route) :
                          rres' = JsonResponse(status, [of |-> "handler"])
                   ELSE rres' = rres
                /\ rpos' = [rpos EXCEPT !.i = @ + 1]
                /\ rerr' = rerr
           ELSE UseLayer(layer)
    /\ UNCHANGED <<rreq, storeVars, queryVars>>

\* The end of the router's stack: back to the application's, after the router.
RouterDone ==
    /\ rres = <<>>
    /\ rpos.stack = "router"
    /\ rpos.i > Len(RouterLayers)
    /\ rpos' = [stack |-> "app", i |-> RouterAt + 1]
    /\ UNCHANGED <<rerr, rres, rreq, storeVars, queryVars>>

\* The end of the application's stack: the final handler of Express answers,
\* 500 for an error and 404 without one.
FinalHandler ==
    /\ rres = <<>>
    /\ rpos.stack = "app"
    /\ rpos.i > Len(AppLayers)
    /\ rres' = HtmlResponse(IF rerr THEN 500 ELSE 404)
    /\ UNCHANGED <<rpos, rerr, rreq, storeVars, queryVars>>

RouteNext == AppStep \/ RouterStep \/ RouterDone \/ FinalHandler

RouteSpec == RouteInit /\ [][RouteNext]_vars

\* ------------------------------------------------------------------ claims

\* Steps and states the claims speak of.

\* The catalog load() gives for the file: the persisted catalog.
Persisted == readData(file)

\* The step in which the request of slot s answers 201.
Created(s) ==
    slots[s].pc = "writing" /\ slots'[s].pc = "done" /\ slots'[s].status = 201

\* The step in which POST /api/cars reads the file for slot s.
Reads(s) == slots[s].pc # "writing" /\ slots'[s] # slots[s]

GetOps ==
    {"GET /api/cars", "GET /api/cars/:id", "GET /api/makes",
     "GET /api/makes/:make/models", "GET /api/locations",
     "GET /api/price-range", "GET /api/year-range"}

\* A step in which a GET handler answers.
GetAnswers == last' # last /\ last'.op \in GetOps

\* The file gives load() nothing: it is absent, not JSON, or unreadable.
NothingToLoad == file.kind \in {"absent", "corrupt", "unreadable"}

EmptyCatalog == Doc(<<>>, 1)

\* C1: in the persisted catalog nextId is strictly greater than the id of
\* every listing, whatever POST requests ran and however they interleaved.
C1_NextIdAboveEveryId ==
    Persisted.kind = "ok" =>
        \A i \in DOMAIN Persisted.cars : Persisted.cars[i].id < Persisted.nextId

\* C1's case: two listings persisted, one request answered 201, one 500.
C1_Witness ==
    /\ file.kind = "ok" /\ Len(file.cars) >= 2
    /\ \E s, t \in Slots : slots[s].status = 201 /\ slots[t].status = 500

\* C2, as claimed: every creation answered 201 raises the persisted nextId by
\* exactly 1 and returns the nextId persisted just before it.
C2_Original ==
    [][\A s \in Slots :
         Created(s) =>
             /\ readData(file').nextId = Persisted.nextId + 1
             /\ slots[s].newCar.id = Persisted.nextId]_vars

\* C2, amended: a creation answered 201 returns the nextId of the catalog it
\* read and persists that id plus 1; it raises the persisted nextId by
\* exactly 1, and its id is the nextId persisted just before it, when the
\* file still gives the catalog it read.
C2_IdFromCatalogRead ==
    [][\A s \in Slots :
         Created(s) =>
             /\ slots[s].newCar.id = slots[s].read.nextId
             /\ last'.sent.id = slots[s].read.nextId
             /\ file'.kind = "ok"
             /\ file'.nextId = slots[s].newCar.id + 1
             /\ (Persisted = slots[s].read =>
                   /\ file'.nextId = Persisted.nextId + 1
                   /\ slots[s].newCar.id = Persisted.nextId)]_vars

\* C2's case: two creations answered 201, one after the other.
C2_Witness ==
    \E s, t \in Slots :
        /\ slots[s].status = 201 /\ slots[t].status = 201
        /\ slots[t].newCar.id = slots[s].newCar.id + 1
        /\ file.kind = "ok" /\ file.nextId = slots[t].newCar.id + 1

\* C3: the document a creation writes replaces the file as a whole: it is
\* the catalog the request read with its own listing appended, so a listing
\* another request persisted after that read is lost.
C3_LastWriterWinsInFull ==
    [][\A s \in Slots :
         Created(s) =>
             /\ file' = Doc(JsonCars(slots[s].data.cars), slots[s].data.nextId)
             /\ \A i \in DOMAIN Persisted.cars :
                    (/\ Persisted.cars[i] \notin Range(slots[s].read.cars)
                     /\ Persisted.cars[i] # JsonCar(slots[s].newCar))
                        => Persisted.cars[i] \notin Range(file'.cars)]_vars

\* C3's case: both requests answered 201, both read the same catalog, and the
\* file holds the listing of one and not that of the other.
C3_Witness ==
    \E s, t \in Slots :
        /\ s # t
        /\ slots[s].status = 201 /\ slots[t].status = 201
        /\ slots[s].newCar.id = slots[t].newCar.id
        /\ file.kind = "ok"
        /\ JsonCar(slots[t].newCar) \in Range(file.cars)
        /\ JsonCar(slots[s].newCar) \notin Range(file.cars)

\* C4: GET /api/cars/:id answers 200 with the listing for the id of every
\* listing of the persisted catalog, and 404 "Car not found" for an integer
\* no listing has.
C4_GetById ==
    Persisted.kind = "ok" =>
        /\ \A i \in DOMAIN Persisted.cars :
               LET answer == CarByIdAnswer(file, <<DigitChar(Persisted.cars[i].id)>>)
               IN  answer.code = 200 /\ answer.sent = Persisted.cars[i]
        /\ \A n \in 0..9 :
               (\A i \in DOMAIN Persisted.cars : Persisted.cars[i].id # n) =>
                   LET answer == CarByIdAnswer(file, <<DigitChar(n)>>)
                   IN  answer.code = 404 /\ answer.sent = ErrCarNotFound

\* C4's case: the second listing of a catalog two creations wrote, answered.
C4_Witness ==
    /\ file.kind = "ok" /\ Len(file.cars) >= 2
    /\ \E s \in Slots : slots[s].status = 201
    /\ last.op = "GET /api/cars/:id" /\ last.code = 200
    /\ last.sent = file.cars[2]

\* C6, as claimed: a POST /api/cars whose body lacks a required field, or has
\* it empty, is answered 400 with an error that begins "Missing required
\* fields:" and names the field, and writes nothing.
C6_MissingFieldNamed ==
    [][(last' # last /\ last'.op = "POST /api/cars" /\ MissingField(last'.req)) =>
          /\ last'.code = 400
          /\ Head(last'.sent.error) = "Missing required fields:"
          /\ \A k \in Range(RequiredFields) :
                 ~Truthy(last'.req, k) => k \in Range(Tail(last'.sent.error))
          /\ file' = file]_vars

\* No route of the router matches the request.
Unmatched(req) == \A i \in DOMAIN Routes : ~RouteMatches(Routes[i], req)

\* C5, as claimed: a request that matches no route is answered by the
\* application's 404 handler, with status 404 and {error: "Route not found"},
\* and never with a 500 or a body that is not JSON.
C5_UnmatchedGets404 ==
    (rres # <<>> /\ Unmatched(rreq)) =>
        /\ rres.status = 404
        /\ rres.json
        /\ rres = JsonResponse(404, ErrRouteNotFound)

\* What the GET handlers answer on file f.
GetAnswersOn(f) ==
    CarsAnswers(f)
        \cup {CarByIdAnswer(f, id) : id \in IdParams(readData(f).cars)}
        \cup {MakesAnswer(f), LocationsAnswer(f), PriceRangeAnswer(f),
              YearRangeAnswer(f)}
        \cup {ModelsAnswer(f, make) : make \in MakeParams}

\* C7, as claimed: with nothing to load, every read endpoint answers 200 as
\* for an empty catalog.
C7_Original ==
    [][(NothingToLoad /\ GetAnswers) =>
          /\ last' \in GetAnswersOn(EmptyCatalog)
          /\ last'.code = 200]_vars

\* C7, amended: with nothing to load, every read endpoint answers as for an
\* empty catalog, which is 200 but for GET /api/cars/:id, which answers 404;
\* and a creation answered 201 that read in that state has id 1 and persists
\* the catalog of its listing alone with nextId 2.
C7_AnswersAsForEmpty ==
    [][/\ (NothingToLoad /\ GetAnswers) =>
              /\ last' \in GetAnswersOn(EmptyCatalog)
              /\ IF last'.op = "GET /api/cars/:id"
                 THEN last'.code = 404 /\ last'.sent = ErrCarNotFound
                 ELSE last'.code = 200
       /\ \A s \in Slots :
              (NothingToLoad /\ Reads(s) /\ slots'[s].pc = "writing") =>
                  /\ slots'[s].read = EmptyCatalog
                  /\ slots'[s].newCar.id = 1
       /\ \A s \in Slots :
              (Created(s) /\ slots[s].read = EmptyCatalog) =>
                  /\ last'.sent.id = 1
                  /\ file' = Doc(<<JsonCar(slots[s].newCar)>>, 2)]_vars

\* C7's case: the file is unreadable, GET /api/cars has answered 200 with no
\* listing, and a creation that read it holds id 1.
C7_Witness ==
    /\ file.kind = "unreadable"
    /\ last.op = "GET /api/cars" /\ last.code = 200 /\ last.sent = <<>>
    /\ \E s \in Slots : slots[s].pc = "writing" /\ slots[s].newCar.id = 1

\* C10: a GET handler leaves the file as it is; the file changes only in the
\* step that ends a creation's write; and a creation answered 201 leaves in
\* the file the listings it read, in their order, then its own listing, with
\* the nextId it read plus 1.
C10_OnlyCreationWrites ==
    [][/\ GetAnswers => file' = file
       /\ file' # file =>
              \E s \in Slots : slots[s].pc = "writing" /\ slots'[s].pc = "done"
       /\ \A s \in Slots :
              Created(s) =>
                  /\ file'.kind = "ok"
                  /\ file'.cars
                       = Append(slots[s].read.cars, JsonCar(slots[s].newCar))
                  /\ file'.nextId = slots[s].read.nextId + 1]_vars

\* C10's case: a creation has added a second listing, and a GET has answered.
C10_Witness ==
    /\ file.kind = "ok" /\ Len(file.cars) >= 2
    /\ \E s \in Slots : slots[s].status = 201
    /\ last.op \in GetOps /\ last.code = 200

\* The order of s reversed.
Reverse(s) == [i \in DOMAIN s |-> s[Len(s) + 1 - i]]

\* Other orders of the filters: the reverse, and the orders that exchange two
\* neighbours (from which every order is composed).
OtherOrders ==
    LET n == Len(FilterOrder)
        exchanged(k) ==
            [i \in 1..n |-> IF i = k THEN FilterOrder[k + 1]
                            ELSE IF i = k + 1 THEN FilterOrder[k]
                            ELSE FilterOrder[i]]
    IN  {Reverse(FilterOrder)} \cup {exchanged(k) : k \in 1..(n - 1)}

\* C8, as claimed: the listings GET /api/cars returns are those of the
\* catalog that satisfy the predicate of every parameter present in the
\* query, in whatever order the filters are applied.
C8_Original ==
    qres # <<>> =>
        LET q == qres.q
            satisfying ==
                {c \in Range(qcat) :
                   \A p \in Range(FilterOrder) : p \in DOMAIN q => Keeps(p, q, c)}
        IN  /\ Range(qres.cars) = satisfying
            /\ \A order \in OtherOrders :
                   Range(ApplyFilters(order, q, qcat)) = satisfying

\* C8, amended: the listings returned are those that satisfy the predicate
\* of every parameter that is present and not empty, each once, in whatever
\* order the filters are applied; an absent or empty parameter removes
\* nothing.
C8_NonEmptyParameters ==
    qres # <<>> =>
        LET q == qres.q
            satisfying ==
                {c \in Range(qcat) :
                   \A p \in Range(FilterOrder) : Truthy(q, p) => Keeps(p, q, c)}
        IN  /\ Range(qres.cars) = satisfying
            /\ Len(qres.cars) = Cardinality(satisfying)
            /\ \A order \in OtherOrders :
                   Range(ApplyFilters(order, q, qcat)) = satisfying
            /\ \A p \in Range(FilterOrder) :
                   ~Truthy(q, p) => ApplyFilter(p, q, qcat) = qcat

\* C8's case: two filters or more, which keep some listings and remove some.
C8_Witness ==
    /\ qres # <<>>
    /\ Cardinality({p \in Range(FilterOrder) : Truthy(qres.q, p)}) >= 2
    /\ Len(qres.cars) > 0
    /\ Len(qres.cars) < Len(qcat)

PriceAscending(q) ==
    "sortBy" \in DOMAIN q /\ q.sortBy = T_price /\ q.sortOrder = T_asc

DistinctPrices(cars) ==
    \A i, j \in DOMAIN cars : i # j => cars[i].price # cars[j].price

IntegerPrices(cars) == \A i \in DOMAIN cars : cars[i].price.k = "int"

StrictlyIncreasingPrices(cars) ==
    \A i, j \in DOMAIN cars : i < j => NumLt(cars[i].price, cars[j].price)

SameDescending(q) == [q EXCEPT !.sortOrder = T_desc]

\* C9, as claimed: on a catalog whose listings have distinct prices, the
\* answer for sortBy=price and sortOrder=asc is in strictly increasing price
\* order and is the reverse of the answer for sortOrder=desc.
C9_Original ==
    (qres # <<>> /\ PriceAscending(qres.q) /\ DistinctPrices(qcat)) =>
        /\ StrictlyIncreasingPrices(qres.cars)
        /\ \A desc \in listAll(qcat, SameDescending(qres.q)) :
               desc = Reverse(qres.cars)

\* C9, amended: the same, on a catalog whose listings have distinct integer
\* prices (none is the null that a price without a digit is stored as).
C9_DistinctIntegerPrices ==
    (/\ qres # <<>> /\ PriceAscending(qres.q)
     /\ DistinctPrices(qcat) /\ IntegerPrices(qcat)) =>
        /\ StrictlyIncreasingPrices(qres.cars)
        /\ \A desc \in listAll(qcat, SameDescending(qres.q)) :
               desc = Reverse(qres.cars)

\* C9's case: two listings or more, of distinct integer prices, sorted.
C9_Witness ==
    /\ qres # <<>> /\ PriceAscending(qres.q)
    /\ DistinctPrices(qcat) /\ IntegerPrices(qcat)
    /\ Len(qres.cars) >= 2

====
